---- MODULE Spec2Model ----
(***************************************************************************)
(* DecisionAI scoring engine (js/app.js, section SCORING ENGINE).          *)
(*                                                                         *)
(* Number representation.  JavaScript numbers are modelled exactly:        *)
(*   - cost and time_required are naturals (currency units, hours);        *)
(*   - risk_level, priority and reward_potential, which the sliders give   *)
(*     in steps of 0.5 on the scale 0..10, are held in tenths (25 = 2.5);  *)
(*   - a user weight is an exact rational <<n, d>> (<<25, 100>> = 0.25, as *)
(*     saveWeights stores v/100 for an integer percentage v); the entries  *)
(*     of PERSONALITY_MODS are held in hundredths (25 = 0.25);             *)
(*   - intermediate values are exact rationals <<n, d>>, d > 0, reduced;   *)
(*     the non-finite numbers are <<1, 0>> (Infinity), <<-1, 0>>           *)
(*     (-Infinity) and <<0, 0>> (NaN), and among the rounded integers the  *)
(*     reserved values Infinity, NegInfinity and NaN;                      *)
(*   - x.toFixed(2) is an integer number of hundredths and x.toFixed(1) an *)
(*     integer number of tenths, rounded half away from zero.              *)
(* A property that is absent from an object (undefined) is a field that is *)
(* absent from the record.                                                 *)
(*                                                                         *)
(* The application around the engine (boot and migration, sign-in,         *)
(* navigation, the new-decision wizard, submitDecision, Decide For Me and  *)
(* the weight sliders) is modelled by the second group of variables; an    *)
(* await of a handler is a step boundary.  null is the string "null".      *)
(***************************************************************************)
EXTENDS Integers, Sequences, FiniteSets, TLC

VARIABLES options, weights, personality, result

VARIABLES
  \* the browser, the configuration and the database
  schema_done,  \* localStorage dai_schema_done: "null", "true" or "false"
  lsWeights,    \* localStorage dai_weights: <<>> (null) or <<w>>, w a weight vector
  CONFIG,       \* [valid, serviceKey]: what config.js held when the page loaded
  tablesExist,  \* the profiles table exists in the database
  session,      \* Supabase holds a signed-in session
  db,           \* the rows of the decision at hand: [status, options, scores, results]
  \* initApp and runMigration
  bootPc,       \* "off", "run" (step loop), "timer" (setTimeout pending) or "idle"
  schemaDone,   \* the local const schemaDone of initApp
  probe,        \* the error of the select that initApp's checkTablesExist made
  migStep,      \* index of the next entry of SCHEMA_STEPS
  sqlRun,       \* the entries of SCHEMA_STEPS run since the page loaded
  lastResp,     \* the answer to the last runSQL
  migError,     \* mig-error and mig-retry-btn are shown
  listener,     \* the onAuthStateChange callback is registered
  screen,       \* the screen that is not hidden
  \* globals of app.js
  USER, PROFILE, DECISIONS, CUR_PAGE, PREV_PAGE, OPT_IDX,
  \* the wizard's form
  rows,         \* the .opt-entry elements in document order: [removable, label]
  title,        \* new-title holds text
  wizStep,      \* the wizard step that is not hidden
  btnDisabled,  \* btn-analyze is disabled
  sliders,      \* the values of the five ws-<k> range inputs
  toasts,       \* type of the last toast, "none" before the first
  modal,        \* what modal-decide-body shows
  \* submitDecision
  submitPc,     \* the await submitDecision is suspended at, "idle" outside
  submitOpts,   \* its local const opts
  decidePc      \* the await openDecideForMe is suspended at, "idle" outside

engineVars == <<options, weights, personality, result>>

storeVars == <<schema_done, lsWeights, CONFIG, tablesExist, session, db>>

bootVars == <<bootPc, schemaDone, probe, migStep, sqlRun, lastResp, migError, listener,
              screen>>

globalVars == <<USER, PROFILE, DECISIONS, CUR_PAGE, PREV_PAGE, OPT_IDX>>

formVars == <<rows, title, wizStep, btnDisabled, sliders, toasts, modal>>

submitVars == <<submitPc, submitOpts, decidePc>>

appVars == <<storeVars, bootVars, globalVars, formVars, submitVars>>

vars == <<engineVars, appVars>>

\* Largest number of options passed to one call of scoreOptions.
MaxOpts == 3

----------------------------------------------------------------------------
(* Exact rational arithmetic                                               *)

Abs(x) == IF x < 0 THEN -x ELSE x

RECURSIVE GCD(_, _)
GCD(a, b) == IF b = 0 THEN a ELSE GCD(b, a % b)

Rat(n, d) ==
  LET g == GCD(Abs(n), d)
  IN  IF n = 0 THEN <<0, 1>> ELSE <<n \div g, d \div g>>

RatInt(n) == <<n, 1>>

IsFinite(x) == x[2] # 0

RatNaN == <<0, 0>>

Sgn(n) == IF n > 0 THEN 1 ELSE IF n < 0 THEN -1 ELSE 0

\* a + b; Infinity + -Infinity and anything + NaN are NaN
RatAdd(a, b) ==
  IF IsFinite(a) /\ IsFinite(b)
  THEN LET g == GCD(a[2], b[2])
           l == (a[2] \div g) * b[2]
       IN  Rat(a[1] * (l \div a[2]) + b[1] * (l \div b[2]), l)
  ELSE IF a = RatNaN \/ b = RatNaN THEN RatNaN
  ELSE IF IsFinite(a) THEN b
  ELSE IF IsFinite(b) THEN a
  ELSE IF a = b THEN a
  ELSE RatNaN

RatNeg(a) == <<-a[1], a[2]>>

RatSub(a, b) == RatAdd(a, RatNeg(b))

\* a * b; 0 * Infinity and anything * NaN are NaN
RatMul(a, b) ==
  IF IsFinite(a) /\ IsFinite(b)
  THEN LET g1 == GCD(Abs(a[1]), b[2])
           g2 == GCD(Abs(b[1]), a[2])
       IN  IF a[1] = 0 \/ b[1] = 0 THEN <<0, 1>>
           ELSE <<(a[1] \div g1) * (b[1] \div g2), (a[2] \div g2) * (b[2] \div g1)>>
  ELSE IF a[1] = 0 \/ b[1] = 0 THEN RatNaN
  ELSE <<Sgn(a[1]) * Sgn(b[1]), 0>>

\* a / b for finite a and b; x / 0 is Infinity or -Infinity, 0 / 0 is NaN
RatDiv(a, b) ==
  IF b[1] = 0 THEN <<Sgn(a[1]), 0>>
  ELSE IF b[1] < 0 THEN RatMul(a, <<-b[2], -b[1]>>)
  ELSE RatMul(a, <<b[2], b[1]>>)

RatLeq(a, b) == RatSub(a, b)[1] <= 0

RatMax(a, b) == IF RatLeq(a, b) THEN b ELSE a

RatMin(a, b) == IF RatLeq(a, b) THEN a ELSE b

\* Number.prototype.toFixed(f) followed by unary +, as the integer
\* x * scale rounded half away from zero (scale = 10^f).
\* Of a non-finite number toFixed gives "NaN", "Infinity" or "-Infinity",
\* which unary + turns back into the number.
NaN == 2000000000

Infinity == 2000000001

NegInfinity == -2000000001

ToFixed(x, scale) ==
  LET n == Abs(x[1])
      d == x[2]
      q == n \div d
      r == (n % d) * scale
      m == q * scale + (r \div d) + (IF 2 * (r % d) >= d THEN 1 ELSE 0)
  IN  IF ~IsFinite(x)
      THEN (IF x[1] > 0 THEN Infinity ELSE IF x[1] < 0 THEN NegInfinity ELSE NaN)
      ELSE IF x[1] < 0 THEN -m ELSE m

\* a - b of two rounded numbers
Minus(a, b) ==
  IF a = NaN \/ b = NaN THEN NaN
  ELSE IF a = Infinity THEN (IF b = Infinity THEN NaN ELSE Infinity)
  ELSE IF a = NegInfinity THEN (IF b = NegInfinity THEN NaN ELSE NegInfinity)
  ELSE IF b = Infinity THEN NegInfinity
  ELSE IF b = NegInfinity THEN Infinity
  ELSE a - b

----------------------------------------------------------------------------
(* SCORING ENGINE                                                          *)

keys == <<"cost", "time", "risk", "priority", "reward">>

Keys == {keys[i] : i \in 1..Len(keys)}

\* obj[f] || d for a numeric property: undefined and 0 are both falsy.
OrElse(obj, f, d) == IF f \in DOMAIN obj /\ obj[f] # 0 THEN obj[f] ELSE d

\* The fallback of loadWeights when nothing is stored.
DefaultWeights ==
  [cost |-> <<25, 100>>, time |-> <<20, 100>>, risk |-> <<25, 100>>,
   priority |-> <<15, 100>>, reward |-> <<15, 100>>]

\* weights[k] || 0
WeightOr0(ws, k) == IF k \in DOMAIN ws THEN Rat(ws[k][1], ws[k][2]) ELSE RatInt(0)

PERSONALITY_MODS ==
  [conservative |-> [cost |-> 25, time |-> 15, risk |-> 40, priority |-> 10, reward |-> 10],
   balanced     |-> [cost |-> 25, time |-> 20, risk |-> 25, priority |-> 15, reward |-> 15],
   aggressive   |-> [cost |-> 20, time |-> 20, risk |-> 10, priority |-> 20, reward |-> 30]]

\* Variant of PersonalityMod: the label is ignored.
PersonalityModBalanced(p) == PERSONALITY_MODS["balanced"]

\* const mod = PERSONALITY_MODS[personality] || PERSONALITY_MODS.balanced
PersonalityMod(p) ==
  IF p \in DOMAIN PERSONALITY_MODS THEN PERSONALITY_MODS[p]
  ELSE PERSONALITY_MODS["balanced"]

\* Variant of Blend: the two shares are swapped.
BlendSwapped(ws, mod) ==
  [k \in Keys |->
     RatAdd(RatMul(WeightOr0(ws, k), Rat(4, 10)),
            RatMul(Rat(OrElse(mod, k, 0), 100), Rat(6, 10)))]

\* w[k] = (weights[k]||0)*0.6 + (mod[k]||0)*0.4
Blend(ws, mod) ==
  [k \in Keys |->
     RatAdd(RatMul(WeightOr0(ws, k), Rat(6, 10)),
            RatMul(Rat(OrElse(mod, k, 0), 100), Rat(4, 10)))]

RECURSIVE SumKeys(_, _)
SumKeys(w, i) ==
  IF i > Len(keys) THEN RatInt(0) ELSE RatAdd(w[keys[i]], SumKeys(w, i + 1))

\* Variant of WeightSum: the first entry is left out of the sum.
WeightSumShort(w) == SumKeys(w, 2)

\* t = Object.values(w).reduce((a,b)=>a+b,0)
WeightSum(w) == SumKeys(w, 1)

\* Variant of Normalize: the blended weights are not divided by their sum.
NormalizeSkipped(w) == w

\* keys.forEach(k => w[k] /= t)
Normalize(w) == LET t == WeightSum(w) IN [k \in Keys |-> RatDiv(w[k], t)]

BlendedWeights(ws, p) == Normalize(Blend(ws, PersonalityMod(p)))

Max2(a, b) == IF a >= b THEN a ELSE b

RECURSIVE MaxOver(_, _, _)
MaxOver(opts, f, i) ==
  IF i > Len(opts) THEN 1
  ELSE Max2(OrElse(opts[i], f, 0), MaxOver(opts, f, i + 1))

\* Math.max(...options.map(o=>o.cost||0), 1)
MaxCost(opts) == MaxOver(opts, "cost", 1)

\* Variant of MaxTime: the maximum is taken over the costs.
MaxTimeFromCost(opts) == MaxOver(opts, "cost", 1)

\* Math.max(...options.map(o=>o.time_required||0), 1)
MaxTime(opts) == MaxOver(opts, "time_required", 1)

\* Variant of CostScore: the ratio is not scaled to percent.
CostScoreUnscaled(o, maxCost) ==
  RatMax(RatInt(0), RatSub(RatInt(100), Rat(OrElse(o, "cost", 0), maxCost)))

\* Math.max(0, 100 - ((o.cost||0)/maxCost)*100)
CostScore(o, maxCost) ==
  RatMax(RatInt(0),
         RatSub(RatInt(100), RatMul(Rat(OrElse(o, "cost", 0), maxCost), RatInt(100))))

\* Math.max(0, 100 - ((o.time_required||0)/maxTime)*100)
TimeScore(o, maxTime) ==
  RatMax(RatInt(0),
         RatSub(RatInt(100),
                RatMul(Rat(OrElse(o, "time_required", 0), maxTime), RatInt(100))))

\* o.risk_level||5, in tenths
RawRisk(o) == OrElse(o, "risk_level", 50)

\* (10-(o.risk_level||5))*10
RiskScore(o) == RatMul(RatSub(RatInt(10), Rat(RawRisk(o), 10)), RatInt(10))

\* (o.priority||5)*10
PriorityScore(o) == RatMul(Rat(OrElse(o, "priority", 50), 10), RatInt(10))

\* Variant of RewardScore: a missing reward_potential counts as 0.
RewardScoreDefaultZero(o) == RatMul(Rat(OrElse(o, "reward_potential", 0), 10), RatInt(10))

\* (o.reward_potential||5)*10
RewardScore(o) == RatMul(Rat(OrElse(o, "reward_potential", 50), 10), RatInt(10))

\* cs*w.cost + ts*w.time + rs*w.risk + ps*w.priority + ws*w.reward
Total(cs, ts, rs, ps, rw, w) ==
  RatAdd(RatAdd(RatAdd(RatAdd(RatMul(cs, w["cost"]), RatMul(ts, w["time"])),
                       RatMul(rs, w["risk"])),
                RatMul(ps, w["priority"])),
         RatMul(rw, w["reward"]))

\* The callback of options.map: one scored entry (scores in hundredths).
ScoreOne(o, w, maxCost, maxTime) ==
  LET cs == CostScore(o, maxCost)
      ts == TimeScore(o, maxTime)
      rs == RiskScore(o)
      ps == PriorityScore(o)
      rw == RewardScore(o)
  IN  [option_id      |-> o.id,
       label          |-> o.label,
       cost_score     |-> ToFixed(cs, 100),
       time_score     |-> ToFixed(ts, 100),
       risk_score     |-> ToFixed(rs, 100),
       priority_score |-> ToFixed(ps, 100),
       reward_score   |-> ToFixed(rw, 100),
       weighted_total |-> ToFixed(Total(cs, ts, rs, ps, rw, w), 100),
       raw_risk       |-> RawRisk(o)]

\* Variant of Compare: ascending order.
CompareAscending(a, b) == a.weighted_total - b.weighted_total

\* The comparator (a,b) => b.weighted_total - a.weighted_total
Compare(a, b) == Minus(b.weighted_total, a.weighted_total)

\* The sort takes a comparator result of NaN as +0.
Order(v) == IF v = NaN THEN 0 ELSE v

\* Variant of InsertSorted: x goes in front of the entries it ties with.
RECURSIVE InsertSortedUnstable(_, _)
InsertSortedUnstable(s, x) ==
  IF s = <<>> THEN <<x>>
  ELSE IF s[1].weighted_total > x.weighted_total
       THEN <<Head(s)>> \o InsertSortedUnstable(Tail(s), x)
  ELSE <<x>> \o s

\* Array.prototype.sort is stable: x goes behind every entry it does not
\* strictly precede.
RECURSIVE InsertSorted(_, _)
InsertSorted(s, x) ==
  IF s = <<>> THEN <<x>>
  ELSE IF Order(Compare(Head(s), x)) <= 0 THEN <<Head(s)>> \o InsertSorted(Tail(s), x)
  ELSE <<x>> \o s

RECURSIVE SortFrom(_, _, _)
SortFrom(s, acc, i) ==
  IF i > Len(s) THEN acc ELSE SortFrom(s, InsertSorted(acc, s[i]), i + 1)

\* scored.sort((a,b) => b.weighted_total - a.weighted_total)
SortScored(s) == SortFrom(s, <<>>, 1)

\* Variant of AssignRanks: entries with equal totals share a rank.
AssignRanksShared(s) ==
  [i \in 1..Len(s) |->
     [rank |-> 1 + Cardinality({k \in 1..Len(s) :
                                  s[k].weighted_total > s[i].weighted_total})] @@ s[i]]

\* scored.forEach((s,i) => s.rank = i+1)
AssignRanks(s) == [i \in 1..Len(s) |-> [rank |-> i] @@ s[i]]

\* Variant of Gap: the runner-up is read one index too far.
GapOffByOne(s) == s[1].weighted_total - (IF Len(s) >= 3 THEN s[3].weighted_total ELSE 0)

\* scored[0].weighted_total - (scored[1]?.weighted_total || 0), hundredths
\* (NaN is falsy, like 0)
Gap(s) ==
  Minus(s[1].weighted_total,
        IF Len(s) >= 2 /\ s[2].weighted_total # NaN THEN s[2].weighted_total ELSE 0)

\* Variant of Confidence: the two clamp bounds are swapped.
ConfidenceSwappedClamp(gap) ==
  ToFixed(RatMax(RatInt(99),
                 RatMin(RatInt(50),
                        RatAdd(RatInt(50),
                               RatMul(RatDiv(Rat(gap, 100), RatInt(100)), RatInt(49))))),
          10)

\* +(Math.min(99, Math.max(50, 50+(gap/100)*49))).toFixed(1), in tenths
\* Math.max and Math.min return NaN when an argument is NaN.
Confidence(gap) ==
  IF gap = NaN THEN NaN
  ELSE IF gap = Infinity THEN 990
  ELSE IF gap = NegInfinity THEN 500
  ELSE
  ToFixed(RatMin(RatInt(99),
                 RatMax(RatInt(50),
                        RatAdd(RatInt(50),
                               RatMul(RatDiv(Rat(gap, 100), RatInt(100)), RatInt(49))))),
          10)

\* raw<=2.5?'low':raw<=5?'medium':raw<=7.5?'high':'critical'
RiskLevelOf(raw) ==
  IF raw <= 25 THEN "low"
  ELSE IF raw <= 50 THEN "medium"
  ELSE IF raw <= 75 THEN "high"
  ELSE "critical"

\* Reading scored[0].weighted_total of an empty array throws.
TypeError == [error |-> "TypeError"]

scoreOptions(opts, ws, p) ==
  LET w       == BlendedWeights(ws, p)
      maxCost == MaxCost(opts)
      maxTime == MaxTime(opts)
      scored  == AssignRanks(SortScored(
                   [i \in 1..Len(opts) |-> ScoreOne(opts[i], w, maxCost, maxTime)]))
  IN  IF Len(opts) = 0 THEN TypeError
      ELSE [breakdown  |-> scored,
            bestId     |-> scored[1].option_id,
            confidence |-> Confidence(Gap(scored)),
            riskLevel  |-> RiskLevelOf(scored[1].raw_risk)]

----------------------------------------------------------------------------
(* Inputs of a call                                                        *)

\* Option rows as the options table holds them (risk_level, priority and
\* reward_potential in tenths); the row without attributes has them unset.
OptionPool ==
  { [label |-> "best",  cost |-> 0,    time_required |-> 0,   risk_level |-> 0,
     priority |-> 100, reward_potential |-> 100],
    [label |-> "worst", cost |-> 1000, time_required |-> 100, risk_level |-> 100,
     priority |-> 0,   reward_potential |-> 0],
    [label |-> "c100",  cost |-> 100,  time_required |-> 3,   risk_level |-> 50,
     priority |-> 50,  reward_potential |-> 50],
    [label |-> "c200",  cost |-> 200,  time_required |-> 3,   risk_level |-> 50,
     priority |-> 50,  reward_potential |-> 50],
    [label |-> "odd",   cost |-> 1,    time_required |-> 1,   risk_level |-> 25,
     priority |-> 70,  reward_potential |-> 30],
    [label |-> "bare"] }

\* The database gives every row its own id: the i-th row gets id i.
WithIds(rs) == [i \in 1..Len(rs) |-> [id |-> i] @@ rs[i]]

RECURSIVE SeqsOfLen(_, _)
SeqsOfLen(S, n) ==
  IF n = 0 THEN {<<>>}
  ELSE {Append(s, x) : s \in SeqsOfLen(S, n - 1), x \in S}

OptionLists == UNION {SeqsOfLen(OptionPool, n) : n \in 0..MaxOpts}

\* User weight vectors: the default, the zero vector, a vector of a much
\* larger scale and one with keys missing.
WeightPool ==
  { DefaultWeights,
    [cost |-> <<0, 1>>, time |-> <<0, 1>>, risk |-> <<0, 1>>, priority |-> <<0, 1>>,
     reward |-> <<0, 1>>],
    [cost |-> <<2000, 1>>, time |-> <<0, 1>>, risk |-> <<0, 1>>, priority |-> <<0, 1>>,
     reward |-> <<0, 1>>],
    [risk |-> <<1, 2>>, reward |-> <<3, 2>>] }

Personalities == {"conservative", "balanced", "aggressive", "cautious"}

NoResult == [error |-> "none"]

\* No statement has been sent to the pg-meta endpoint.
NoResp == [kind |-> "none", status |-> 0, exists |-> FALSE]

\* No decision at hand in the database.
NoDecision == [status |-> "none", options |-> 0, scores |-> "none", results |-> "none"]

\* The five sliders before loadAdminPage has set them.
NoSliders == [k \in {"cost", "time", "risk", "priority", "reward"} |-> 0]

\* The globals as lines 9-16 initialise them and the page before
\* DOMContentLoaded.
PageNotLoaded ==
  /\ bootPc = "off"
  /\ schemaDone = "null"
  /\ probe = "unset"
  /\ migStep = 0
  /\ sqlRun = <<>>
  /\ lastResp = NoResp
  /\ migError = FALSE
  /\ listener = FALSE
  /\ screen = "none"
  /\ USER = "null"
  /\ PROFILE = "null"
  /\ DECISIONS = "empty"
  /\ CUR_PAGE = "dashboard"
  /\ PREV_PAGE = "null"
  /\ OPT_IDX = 0
  /\ rows = <<>>
  /\ title = FALSE
  /\ wizStep = 1
  /\ btnDisabled = FALSE
  /\ sliders = NoSliders
  /\ toasts = "none"
  /\ modal = "none"
  /\ submitPc = "idle"
  /\ submitOpts = <<>>
  /\ decidePc = "idle"

\* A fresh browser and an empty project: scoreOptions is called on its own.
EngineOnly ==
  /\ PageNotLoaded
  /\ schema_done = "null"
  /\ lsWeights = <<>>
  /\ CONFIG = [valid |-> TRUE, serviceKey |-> TRUE]
  /\ tablesExist = FALSE
  /\ session = FALSE
  /\ db = NoDecision

Init ==
  /\ options \in {WithIds(rs) : rs \in OptionLists}
  /\ weights \in WeightPool
  /\ personality \in Personalities
  /\ result = NoResult
  /\ EngineOnly

\* Variant of OptionsAfter: the caller's array is the one that is sorted.
OptionsAfterSortedInPlace(opts, ws, p) ==
  LET r == scoreOptions(opts, ws, p)
  IN  IF "breakdown" \in DOMAIN r
      THEN [i \in 1..Len(opts) |->
              opts[CHOOSE j \in 1..Len(opts) : opts[j].id = r.breakdown[i].option_id]]
      ELSE opts

\* The caller's options array after the call: options.map builds the new
\* array scored, and sort and forEach work on scored.
OptionsAfter(opts, ws, p) == opts

\* The caller's weights object after the call: the blend is written to the
\* new object w.
WeightsAfter(opts, ws, p) == ws

\* A call scoreOptions(options, weights, personality) returns or throws.
ScoreOptions ==
  /\ result = NoResult
  /\ result' = scoreOptions(options, weights, personality)
  /\ options' = OptionsAfter(options, weights, personality)
  /\ weights' = WeightsAfter(options, weights, personality)
  /\ UNCHANGED <<personality, appVars>>

Next == ScoreOptions

Spec == Init /\ [][Next]_vars

\* User weight vectors outside the data model (negative entries) whose
\* blend with any personality table sums to zero.
DegenerateWeightPool ==
  { [cost |-> <<-2, 3>>, time |-> <<0, 1>>, risk |-> <<0, 1>>, priority |-> <<0, 1>>,
     reward |-> <<0, 1>>],
    [cost |-> <<-1, 6>>, time |-> <<-2, 15>>, risk |-> <<-1, 6>>, priority |-> <<-1, 10>>,
     reward |-> <<-1, 10>>],
    [risk |-> <<-2, 3>>] }

InitDegenerate ==
  /\ options \in {WithIds(rs) : rs \in OptionLists}
  /\ weights \in DegenerateWeightPool
  /\ personality \in Personalities
  /\ result = NoResult
  /\ EngineOnly

SpecDegenerate == InitDegenerate /\ [][Next]_vars

\* Option rows whose unrounded totals lie closer together than the two
\* decimals of toFixed(2) tell apart.
PrecisionPool ==
  { [label |-> "big", cost |-> 4000],
    [label |-> "c1",  cost |-> 1],
    [label |-> "c2",  cost |-> 2],
    [label |-> "c9",  cost |-> 9] }

InitPrecision ==
  /\ options \in {WithIds(rs) :
                    rs \in UNION {SeqsOfLen(PrecisionPool, n) : n \in 0..MaxOpts}}
  /\ weights \in {DefaultWeights}
  /\ personality \in Personalities
  /\ result = NoResult
  /\ EngineOnly

SpecPrecision == InitPrecision /\ [][Next]_vars

----------------------------------------------------------------------------
(* The application: navigation and the new-decision wizard                 *)

\* Largest value OPT_IDX takes in one visit of the wizard.
MaxRows == 11

\* LS.get('weights') || { cost:0.25, time:0.20, risk:0.25, priority:0.15, reward:0.15 }
loadWeights == IF lsWeights = <<>> THEN DefaultWeights ELSE lsWeights[1]

\* initWizard, then one addOptionRow for each of the first two rows, which
\* get no remove button (n > 2 is false).
WizardStart ==
  [OPT_IDX |-> 2,
   title   |-> FALSE,
   wizStep |-> 1,
   rows    |-> <<[removable |-> FALSE, label |-> FALSE],
                 [removable |-> FALSE, label |-> FALSE]>>]

\* loadAdminPage sets slider k to Math.round((w[k]||0)*100) (ToFixed with
\* scale 1 is that rounding for the non-negative values stored).
SlidersOf(w) ==
  [k \in {"cost", "time", "risk", "priority", "reward"} |->
     ToFixed(RatMul(WeightOr0(w, k), RatInt(100)), 1)]

\* What loadDashboard, loadHistory and loadProfilePage leave in DECISIONS:
\* the rows of the user, here the decision at hand when there is one.
Fetched == IF db.status = "none" THEN "empty" ELSE "loaded"

\* PREV_PAGE = CUR_PAGE; CUR_PAGE = page
gotoPage(nav, page) == [cur |-> page, prev |-> nav.cur]

Nav == [cur |-> CUR_PAGE, prev |-> PREV_PAGE]

\* The rest of gotoPage: the loader of the page entered last runs on the
\* globals and the form (decisions is DECISIONS when it runs).
Enter(nav, decisions) ==
  /\ CUR_PAGE' = nav.cur
  /\ PREV_PAGE' = nav.prev
  /\ DECISIONS' = IF nav.cur = "dashboard" THEN Fetched
                  ELSE IF nav.cur \in {"history", "profile"} /\ decisions = "empty"
                       THEN Fetched
                  ELSE decisions
  /\ sliders' = IF nav.cur = "admin" THEN SlidersOf(loadWeights) ELSE sliders
  /\ IF nav.cur = "new"
     THEN /\ OPT_IDX' = WizardStart.OPT_IDX
          /\ title' = WizardStart.title
          /\ wizStep' = WizardStart.wizStep
          /\ rows' = WizardStart.rows
     ELSE UNCHANGED <<OPT_IDX, title, wizStep, rows>>

\* A click on a nav-link (data-page is one of the five sidebar pages).
GotoPage(page) ==
  /\ screen = "app"
  /\ Enter(gotoPage(Nav, page), DECISIONS)
  /\ UNCHANGED <<engineVars, storeVars, bootVars, USER, PROFILE, btnDisabled, toasts,
                 modal, submitVars>>

\* goBack: gotoPage(PREV_PAGE || 'history'), the button of the detail page.
GoBack ==
  /\ screen = "app"
  /\ CUR_PAGE = "detail"
  /\ Enter(gotoPage(Nav, IF PREV_PAGE = "null" THEN "history" ELSE PREV_PAGE), DECISIONS)
  /\ UNCHANGED <<engineVars, storeVars, bootVars, USER, PROFILE, btnDisabled, toasts,
                 modal, submitVars>>

\* viewDecision(id): a click on a decision card of the dashboard or history
\* list, or on the button of a modal.
ViewDecision ==
  /\ screen = "app"
  /\ db.status # "none"
  /\ \/ CUR_PAGE \in {"dashboard", "history"} /\ DECISIONS = "loaded"
     \/ modal \in {"result", "ai"}
  /\ Enter(gotoPage(Nav, "detail"), DECISIONS)
  /\ modal' = "none"
  /\ UNCHANGED <<engineVars, storeVars, bootVars, USER, PROFILE, btnDisabled, toasts,
                 submitVars>>

\* openAIModal(decId) with an API key, from the detail page: the analysis
\* is shown and, as CUR_PAGE === 'detail', viewDecision runs again.
OpenAIModal ==
  /\ screen = "app"
  /\ CUR_PAGE = "detail"
  /\ db.status # "none"
  /\ \/ /\ Enter(IF CUR_PAGE = "detail" THEN gotoPage(Nav, "detail") ELSE Nav, "empty")
        /\ modal' = "ai"
     \/ /\ modal' = "ai-error"
        /\ UNCHANGED <<CUR_PAGE, PREV_PAGE, DECISIONS, sliders, OPT_IDX, title, wizStep,
                       rows>>
  /\ UNCHANGED <<engineVars, storeVars, bootVars, USER, PROFILE, btnDisabled, toasts,
                 submitVars>>

\* The form is left alone while submitDecision is under way: the handler
\* has read it (line 815) and does not read it again.

\* addOptionRow: OPT_IDX++ and a new entry, removable when n > 2.
AddOptionRow(cap) ==
  /\ screen = "app"
  /\ CUR_PAGE = "new"
  /\ submitPc = "idle"
  /\ OPT_IDX < cap
  /\ OPT_IDX' = OPT_IDX + 1
  /\ rows' = Append(rows, [removable |-> OPT_IDX + 1 > 2, label |-> FALSE])
  /\ UNCHANGED <<engineVars, storeVars, bootVars, USER, PROFILE, DECISIONS, CUR_PAGE,
                 PREV_PAGE, title, wizStep, btnDisabled, sliders, toasts, modal,
                 submitVars>>

\* The remove button of entry i: document.getElementById('opt-n').remove()
RemoveRow(i) ==
  /\ screen = "app"
  /\ CUR_PAGE = "new"
  /\ submitPc = "idle"
  /\ i \in 1..Len(rows)
  /\ rows[i].removable
  /\ rows' = [k \in 1..(Len(rows) - 1) |-> IF k < i THEN rows[k] ELSE rows[k + 1]]
  /\ UNCHANGED <<engineVars, storeVars, bootVars, globalVars, title, wizStep,
                 btnDisabled, sliders, toasts, modal, submitVars>>

\* The user types into, or clears, the label input of entry i.
TypeLabel(i) ==
  /\ screen = "app"
  /\ CUR_PAGE = "new"
  /\ submitPc = "idle"
  /\ i \in 1..Len(rows)
  /\ rows' = [rows EXCEPT ![i].label = ~rows[i].label]
  /\ UNCHANGED <<engineVars, storeVars, bootVars, globalVars, title, wizStep,
                 btnDisabled, sliders, toasts, modal, submitVars>>

\* The user types into, or clears, new-title.
TypeTitle ==
  /\ screen = "app"
  /\ CUR_PAGE = "new"
  /\ submitPc = "idle"
  /\ title' = ~title
  /\ UNCHANGED <<engineVars, storeVars, bootVars, globalVars, rows, wizStep,
                 btnDisabled, sliders, toasts, modal, submitVars>>

\* The inputs of an entry other than its label keep the values addOptionRow
\* gives them: cost 0, time 0 and 5 on the three sliders.
EntryValues ==
  [label |-> "option", cost |-> 0, time_required |-> 0, risk_level |-> 50,
   priority |-> 50, reward_potential |-> 50]

\* collectOptions: the entries with a label, in document order.
collectOptions(rs) ==
  LET labelled == SelectSeq(rs, LAMBDA r : r.label)
  IN  [i \in 1..Len(labelled) |-> EntryValues]

\* wizNext(step): "title" and "options" are the two early returns.
wizNext(step) ==
  IF step = 2 /\ ~title THEN "title"
  ELSE IF step = 3 /\ Len(collectOptions(rows)) < 2 THEN "options"
  ELSE "step"

WizNext(step) ==
  /\ screen = "app"
  /\ CUR_PAGE = "new"
  /\ submitPc = "idle"
  /\ IF wizNext(step) = "step"
     THEN wizStep' = step /\ UNCHANGED toasts
     ELSE toasts' = "err" /\ UNCHANGED wizStep
  /\ UNCHANGED <<engineVars, storeVars, bootVars, globalVars, rows, title, btnDisabled,
                 sliders, modal, submitVars>>

----------------------------------------------------------------------------
(* The application: submitDecision and Decide For Me                       *)

\* The values of the select new-risk-profile.
Profiles == {"conservative", "balanced", "aggressive"}

\* The two outcomes of a request to the database.
Outcomes == {"ok", "error"}

\* Variant of SubmitGuard: one labelled option is enough.
SubmitGuardOne(t, os) == t /\ Len(os) >= 1

\* Negation of the early return !title || opts.length < 2
SubmitGuard(t, os) == t /\ Len(os) >= 2

\* Click on btn-analyze: lines 812-820 and the start of the decision insert.
SubmitDecision ==
  /\ screen = "app"
  /\ CUR_PAGE = "new"
  /\ submitPc = "idle"
  /\ decidePc = "idle"
  /\ ~btnDisabled
  /\ IF SubmitGuard(title, collectOptions(rows))
     THEN /\ btnDisabled' = TRUE
          /\ submitOpts' = collectOptions(rows)
          /\ submitPc' = "insertDecision"
          /\ UNCHANGED toasts
     ELSE /\ toasts' = "err"
          /\ UNCHANGED <<btnDisabled, submitOpts, submitPc>>
  /\ UNCHANGED <<engineVars, storeVars, bootVars, globalVars, rows, title, wizStep,
                 sliders, modal, decidePc>>

\* The locals of a handler that has returned: no call of scoreOptions is
\* in progress.
NoCall ==
  /\ options' = <<>>
  /\ weights' = DefaultWeights
  /\ personality' = "balanced"
  /\ result' = NoResult

\* catch (toast) and finally (btn.disabled = false) of submitDecision
SubmitFails ==
  /\ toasts' = "err"
  /\ btnDisabled' = FALSE
  /\ submitPc' = "idle"
  /\ submitOpts' = <<>>

\* The decision insert returns: dErr throws.
InsertDecisionDone(outcome) ==
  /\ submitPc = "insertDecision"
  /\ IF outcome = "ok"
     THEN /\ db' = [NoDecision EXCEPT !.status = "pending"]
          /\ submitPc' = "insertOptions"
          /\ UNCHANGED <<toasts, btnDisabled, submitOpts>>
     ELSE SubmitFails /\ UNCHANGED db
  /\ UNCHANGED <<engineVars, schema_done, lsWeights, CONFIG, tablesExist, session,
                 bootVars, globalVars, rows, title, wizStep, sliders, modal, decidePc>>

\* The options insert returns: oErr throws; otherwise loadWeights,
\* scoreOptions on the saved rows, and the updates of weighted_score start.
InsertOptionsDone(outcome, profile) ==
  /\ submitPc = "insertOptions"
  /\ IF outcome = "ok"
     THEN /\ db' = [db EXCEPT !.options = Len(submitOpts)]
          /\ options' = WithIds(submitOpts)
          /\ weights' = loadWeights
          /\ personality' = profile
          /\ result' = scoreOptions(WithIds(submitOpts), loadWeights, profile)
          /\ submitPc' = "updateScores"
          /\ UNCHANGED <<toasts, btnDisabled, submitOpts>>
     ELSE SubmitFails /\ UNCHANGED <<db, engineVars>>
  /\ UNCHANGED <<schema_done, lsWeights, CONFIG, tablesExist, session, bootVars,
                 globalVars, rows, title, wizStep, sliders, modal, decidePc>>

\* Promise.all of the weighted_score updates returns; the errors of the
\* updates are not read.
UpdateScoresDone(outcome) ==
  /\ submitPc = "updateScores"
  /\ db' = [db EXCEPT !.scores = IF outcome = "ok" THEN "written" ELSE "failed"]
  /\ submitPc' = "upsert"
  /\ UNCHANGED <<engineVars, schema_done, lsWeights, CONFIG, tablesExist, session,
                 bootVars, globalVars, formVars, submitOpts, decidePc>>

\* The upsert of the results row returns; its error is not read.
UpsertDone(outcome) ==
  /\ submitPc = "upsert"
  /\ db' = [db EXCEPT !.results = IF outcome = "ok" THEN "written" ELSE "failed"]
  /\ submitPc' = "setStatus"
  /\ UNCHANGED <<engineVars, schema_done, lsWeights, CONFIG, tablesExist, session,
                 bootVars, globalVars, formVars, submitOpts, decidePc>>

\* The update to status 'analyzed' returns (its error is not read), then
\* DECISIONS = [], the toast, gotoPage('detail') and viewDecision, which
\* calls gotoPage('detail') itself.
SetStatusDone(outcome) ==
  /\ submitPc = "setStatus"
  /\ db' = [db EXCEPT !.status = IF outcome = "ok" THEN "analyzed" ELSE @]
  /\ toasts' = "ok"
  /\ Enter(gotoPage(gotoPage(Nav, "detail"), "detail"), "empty")
  /\ submitPc' = "view"
  /\ UNCHANGED <<engineVars, schema_done, lsWeights, CONFIG, tablesExist, session,
                 bootVars, USER, PROFILE, btnDisabled, modal, submitOpts, decidePc>>

\* viewDecision and the optional AI run return: finally.
SubmitEnds ==
  /\ submitPc = "view"
  /\ btnDisabled' = FALSE
  /\ submitPc' = "idle"
  /\ submitOpts' = <<>>
  /\ NoCall
  /\ UNCHANGED <<storeVars, bootVars, globalVars, rows, title, wizStep, sliders, toasts,
                 modal, decidePc>>

\* The rows the options table holds for the decision at hand.
StoredOptions == WithIds([i \in 1..db.options |-> EntryValues])

\* Negation of the early return !opts || opts.length < 2
DecideGuard(os) == Len(os) >= 2

\* openDecideForMe(decId), the button of the detail page, up to its update
\* of the decision; the select may fail (opts is null).
OpenDecideForMe(fetch, prof) ==
  /\ screen = "app"
  /\ CUR_PAGE = "detail"
  /\ db.status # "none"
  /\ submitPc = "idle"
  /\ decidePc = "idle"
  /\ IF fetch = "ok" /\ DecideGuard(StoredOptions)
     THEN /\ options' = StoredOptions
          /\ weights' = loadWeights
          /\ personality' = prof
          /\ result' = scoreOptions(StoredOptions, loadWeights, prof)
          /\ modal' = "loading"
          /\ decidePc' = "update"
     ELSE /\ modal' = "error"
          /\ UNCHANGED <<engineVars, decidePc>>
  /\ UNCHANGED <<storeVars, bootVars, globalVars, rows, title, wizStep, btnDisabled,
                 sliders, toasts, submitPc, submitOpts>>

\* The update to status 'decided' returns (its error is not read), then
\* DECISIONS = [] and the result is shown.
DecideUpdateDone(outcome) ==
  /\ decidePc = "update"
  /\ db' = [db EXCEPT !.status = IF outcome = "ok" THEN "decided" ELSE @]
  /\ DECISIONS' = "empty"
  /\ modal' = "result"
  /\ decidePc' = "idle"
  /\ NoCall
  /\ UNCHANGED <<schema_done, lsWeights, CONFIG, tablesExist, session, bootVars, USER,
                 PROFILE, CUR_PAGE, PREV_PAGE, OPT_IDX, rows, title, wizStep,
                 btnDisabled, sliders, toasts, submitPc, submitOpts>>

\* A signed-in user on the dashboard (the state onSignedIn leaves), the
\* database holding one decision with n option rows or none.
SignedIn(n) ==
  /\ bootPc = "idle"
  /\ schemaDone = "null"
  /\ probe = "unset"
  /\ migStep = 0
  /\ sqlRun = <<>>
  /\ lastResp = NoResp
  /\ migError = FALSE
  /\ listener = TRUE
  /\ screen = "app"
  /\ schema_done = "null"
  /\ CONFIG = [valid |-> TRUE, serviceKey |-> TRUE]
  /\ tablesExist = TRUE
  /\ session = TRUE
  /\ db \in {NoDecision} \cup {[NoDecision EXCEPT !.status = "pending", !.options = n]}
  /\ USER = "user"
  /\ PROFILE \in {"null"} \cup Profiles
  /\ DECISIONS = Fetched
  /\ CUR_PAGE = "dashboard"
  /\ PREV_PAGE = "dashboard"
  /\ OPT_IDX = 0
  /\ rows = <<>>
  /\ title = FALSE
  /\ wizStep = 1
  /\ btnDisabled = FALSE
  /\ sliders = NoSliders
  /\ toasts = "none"
  /\ modal = "none"
  /\ submitPc = "idle"
  /\ submitOpts = <<>>
  /\ decidePc = "idle"
  /\ options = <<>>
  /\ weights = DefaultWeights
  /\ personality = "balanced"
  /\ result = NoResult

Pages == {"dashboard", "new", "history", "profile", "admin"}

Submit ==
  \/ SubmitDecision
  \/ \E o \in Outcomes : InsertDecisionDone(o)
  \/ \E o \in Outcomes, p \in Profiles : InsertOptionsDone(o, p)
  \/ \E o \in Outcomes : UpdateScoresDone(o)
  \/ \E o \in Outcomes : UpsertDone(o)
  \/ \E o \in Outcomes : SetStatusDone(o)
  \/ SubmitEnds

Navigate ==
  \/ \E page \in Pages : GotoPage(page)
  \/ GoBack
  \/ ViewDecision
  \/ OpenAIModal

Wizard(cap) ==
  \/ AddOptionRow(cap)
  \/ \E i \in 1..cap : RemoveRow(i)
  \/ \E i \in 1..cap : TypeLabel(i)
  \/ TypeTitle
  \/ \E step \in 1..3 : WizNext(step)

DecideForMe ==
  \/ \E f \in Outcomes : OpenDecideForMe(f, IF PROFILE = "null" THEN "balanced" ELSE PROFILE)
  \/ \E u \in Outcomes : DecideUpdateDone(u)

\* The wizard from its first showing to the click on btn-analyze, with room
\* for eleven rows.
InitWizard ==
  /\ lsWeights = <<>>
  /\ SignedIn(0)
  /\ db = NoDecision
  /\ PROFILE = "null"

NextWizard == GotoPage("new") \/ Wizard(MaxRows) \/ SubmitDecision

SpecWizard == InitWizard /\ [][NextWizard]_vars

\* The two handlers that call scoreOptions, with the first two rows of the
\* wizard, which feed submitDecision, and the detail page, which offers
\* Decide For Me.
InitSubmit ==
  /\ lsWeights = <<>>
  /\ \E n \in 0..MaxOpts : SignedIn(n)
  /\ PROFILE = "null"

NextSubmit ==
  \/ GotoPage("new")
  \/ ViewDecision
  \/ TypeTitle
  \/ \E i \in 1..2 : TypeLabel(i)
  \/ \E step \in 1..3 : WizNext(step)
  \/ Submit
  \/ DecideForMe

SpecSubmit == InitSubmit /\ [][NextSubmit]_vars

\* Navigation: the sidebar, the detail page and the handlers that call
\* gotoPage; the wizard is filled in as far as submitDecision asks.
InitNav ==
  /\ lsWeights = <<>>
  /\ \E n \in {0, 2} : SignedIn(n)
  /\ PROFILE = "null"

NextNav ==
  \/ Navigate
  \/ TypeTitle
  \/ \E i \in 1..2 : TypeLabel(i)
  \/ Submit
  \/ DecideForMe

SpecNav == InitNav /\ [][NextNav]_vars

----------------------------------------------------------------------------
(* The application: boot, migration and sign-in                            *)

\* Number of entries of SCHEMA_STEPS, and the entry that creates the table
\* checkTablesExist looks for.
NSteps == 12

ProfilesStep == 2

\* What config.js can hold when the page loads.
Configs == [valid : BOOLEAN, serviceKey : BOOLEAN]

\* The error of select('id').limit(1) on profiles: none or PGRST116 when the
\* table is there, or another error (the request failed); 42P01 when it is
\* not.
Probes(exists) == IF exists THEN {"none", "PGRST116", "other"} ELSE {"42P01"}

\* Variant of checkTablesExist: PGRST116 counts as a missing table.
checkTablesExistStrict(error) == error = "none"

\* checkTablesExist, from the error of its select
checkTablesExist(error) == error \in {"none", "PGRST116"}

\* The answers of the pg-meta endpoint to one statement: success, an error
\* whose body says 'already exists', a 409 and a 500 whose body does not,
\* and a fetch that rejects.
Responses ==
  { [kind |-> "ok",    status |-> 200, exists |-> FALSE],
    [kind |-> "http",  status |-> 400, exists |-> TRUE],
    [kind |-> "http",  status |-> 409, exists |-> FALSE],
    [kind |-> "http",  status |-> 500, exists |-> FALSE],
    [kind |-> "throw", status |-> 0,   exists |-> FALSE] }

\* runSQL: "result" (res.json()), "skipped" ({ skipped: true }) or "throw"
runSQL(resp) ==
  IF resp.kind = "throw" THEN "throw"
  ELSE IF resp.kind = "ok" THEN "result"
  ELSE IF resp.exists \/ resp.status = 409 THEN "skipped"
  ELSE "throw"

\* Variant of StepOutcome: the catch block goes on with the next step
\* whatever the error.
StepOutcomeContinues(resp) == "next"

\* The body of the step loop: "next" to go on with the next step (try, or
\* the continue of the catch block), "fatal" for the return of the catch
\* block.  The message of a thrown error includes 'already exists' or
\* 'duplicate' when the body or the rejection did.
StepOutcome(resp) ==
  IF runSQL(resp) # "throw" THEN "next"
  ELSE IF resp.exists THEN "next"
  ELSE "fatal"

\* onSignedIn when CUR_PAGE is cur: USER, fetchProfile, showScreen('app'),
\* gotoPage('dashboard').
OnSignedIn(cur) ==
  /\ USER' = "user"
  /\ PROFILE' = "balanced"
  /\ screen' = "app"
  /\ CUR_PAGE' = "dashboard"
  /\ PREV_PAGE' = cur
  /\ DECISIONS' = Fetched

\* proceedToApp when CUR_PAGE is cur and the globals are as given
ProceedToApp(cur, user, profile, decisions) ==
  IF session
  THEN OnSignedIn(cur)
  ELSE /\ screen' = "auth"
       /\ USER' = user
       /\ PROFILE' = profile
       /\ DECISIONS' = decisions
       /\ CUR_PAGE' = cur
       /\ PREV_PAGE' = IF cur = CUR_PAGE THEN PREV_PAGE ELSE "null"

\* runMigration up to its first step or its early return; when it returns,
\* initApp registers the onAuthStateChange callback.
RunMigration(cfg, error) ==
  /\ screen' = "migration"
  /\ sqlRun' = <<>>
  /\ lastResp' = NoResp
  /\ IF ~cfg.serviceKey
     THEN migError' = TRUE /\ bootPc' = "idle" /\ listener' = TRUE /\ migStep' = 0
     ELSE IF checkTablesExist(error)
     THEN migError' = FALSE /\ bootPc' = "timer" /\ listener' = TRUE /\ migStep' = 0
     ELSE migError' = FALSE /\ bootPc' = "run" /\ listener' = FALSE /\ migStep' = 1

\* DOMContentLoaded: the page loads with config.js as it is now and initApp
\* runs up to the first step of the migration or to its return.
StartApp(cfg, error1, error2) ==
  /\ error1 \in Probes(tablesExist)
  /\ error2 \in Probes(tablesExist)
  /\ CONFIG' = cfg
  /\ OPT_IDX' = 0
  /\ rows' = <<>>
  /\ title' = FALSE
  /\ wizStep' = 1
  /\ btnDisabled' = FALSE
  /\ sliders' = NoSliders
  /\ toasts' = "none"
  /\ modal' = "none"
  /\ submitPc' = "idle"
  /\ submitOpts' = <<>>
  /\ decidePc' = "idle"
  /\ NoCall
  /\ IF ~cfg.valid
     THEN /\ screen' = "config-error"
          /\ bootPc' = "idle"
          /\ schemaDone' = "null"
          /\ probe' = "unset"
          /\ migStep' = 0
          /\ sqlRun' = <<>>
          /\ lastResp' = NoResp
          /\ migError' = FALSE
          /\ listener' = FALSE
          /\ USER' = "null" /\ PROFILE' = "null" /\ DECISIONS' = "empty"
          /\ CUR_PAGE' = "dashboard" /\ PREV_PAGE' = "null"
          /\ UNCHANGED schema_done
     ELSE /\ schemaDone' = schema_done
          /\ IF schema_done = "true"
             THEN /\ probe' = error1
                  /\ IF checkTablesExist(error1)
                     THEN /\ ProceedToApp("dashboard", "null", "null", "empty")
                          /\ bootPc' = "idle"
                          /\ migStep' = 0
                          /\ sqlRun' = <<>>
                          /\ lastResp' = NoResp
                          /\ migError' = FALSE
                          /\ listener' = FALSE
                          /\ UNCHANGED schema_done
                     ELSE /\ schema_done' = "false"
                          /\ RunMigration(cfg, error2)
                          /\ USER' = "null" /\ PROFILE' = "null" /\ DECISIONS' = "empty"
                          /\ CUR_PAGE' = "dashboard" /\ PREV_PAGE' = "null"
             ELSE /\ probe' = "unset"
                  /\ RunMigration(cfg, error2)
                  /\ USER' = "null" /\ PROFILE' = "null" /\ DECISIONS' = "empty"
                  /\ CUR_PAGE' = "dashboard" /\ PREV_PAGE' = "null"
                  /\ UNCHANGED schema_done
  /\ UNCHANGED <<lsWeights, tablesExist, session, db>>

\* One pass of the step loop: runSQL(step.sql) is answered by resp.  After
\* the last step LS.set('schema_done', true) and the timer for proceedToApp.
MigrateStep(resp) ==
  /\ bootPc = "run"
  /\ sqlRun' = Append(sqlRun, migStep)
  /\ lastResp' = resp
  /\ tablesExist' = (tablesExist \/ (resp.kind = "ok" /\ migStep = ProfilesStep))
  /\ IF StepOutcome(resp) = "fatal"
     THEN /\ migError' = TRUE
          /\ bootPc' = "idle"
          /\ listener' = TRUE
          /\ UNCHANGED <<migStep, schema_done>>
     ELSE IF migStep < NSteps
     THEN /\ migStep' = migStep + 1
          /\ UNCHANGED <<migError, bootPc, listener, schema_done>>
     ELSE /\ schema_done' = "true"
          /\ bootPc' = "timer"
          /\ listener' = TRUE
          /\ UNCHANGED <<migStep, migError>>
  /\ UNCHANGED <<engineVars, lsWeights, CONFIG, session, db, schemaDone, probe, screen,
                 globalVars, formVars, submitVars>>

\* The timer set by runMigration fires: proceedToApp.
TimerFires ==
  /\ bootPc = "timer"
  /\ bootPc' = "idle"
  /\ ProceedToApp(CUR_PAGE, USER, PROFILE, DECISIONS)
  /\ UNCHANGED <<engineVars, storeVars, schemaDone, probe, migStep, sqlRun, lastResp,
                 migError, listener, OPT_IDX, formVars, submitVars>>

\* An auth event reaches the callback of line 424 only when initApp has
\* registered it.
AuthEvent(registered) == registered

\* form-login submit: signInWithPassword succeeds and Supabase emits
\* SIGNED_IN with the session.
SignIn ==
  /\ screen = "auth"
  /\ ~session
  /\ session' = TRUE
  /\ IF AuthEvent(listener)
     THEN OnSignedIn(CUR_PAGE)
     ELSE UNCHANGED <<USER, PROFILE, screen, CUR_PAGE, PREV_PAGE, DECISIONS>>
  /\ UNCHANGED <<engineVars, schema_done, lsWeights, CONFIG, tablesExist, db, bootPc,
                 schemaDone, probe, migStep, sqlRun, lastResp, migError, listener,
                 OPT_IDX, formVars, submitVars>>

\* btn-logout click: signOut, and Supabase emits SIGNED_OUT.
SignOut ==
  /\ screen = "app"
  /\ session
  /\ session' = FALSE
  /\ IF AuthEvent(listener)
     THEN /\ USER' = "null"
          /\ PROFILE' = "null"
          /\ DECISIONS' = "empty"
          /\ screen' = "auth"
     ELSE UNCHANGED <<USER, PROFILE, screen, DECISIONS>>
  /\ UNCHANGED <<engineVars, schema_done, lsWeights, CONFIG, tablesExist, db, bootPc,
                 schemaDone, probe, migStep, sqlRun, lastResp, migError, listener,
                 CUR_PAGE, PREV_PAGE, OPT_IDX, formVars, submitVars>>

\* The database is reset (the case line 410 provides for).
DropTables ==
  /\ tablesExist
  /\ bootPc # "run"
  /\ tablesExist' = FALSE
  /\ UNCHANGED <<engineVars, schema_done, lsWeights, CONFIG, session, db, bootVars,
                 globalVars, formVars, submitVars>>

\* A browser with empty localStorage and no session; the schema may be in
\* the database already (another browser ran the migration).
InitBoot ==
  /\ PageNotLoaded
  /\ schema_done = "null"
  /\ lsWeights = <<>>
  /\ CONFIG = [valid |-> TRUE, serviceKey |-> TRUE]
  /\ tablesExist \in BOOLEAN
  /\ session = FALSE
  /\ db = NoDecision
  /\ options = <<>>
  /\ weights = DefaultWeights
  /\ personality = "balanced"
  /\ result = NoResult

NextBoot ==
  \/ \E cfg \in Configs, e1, e2 \in {"none", "PGRST116", "other", "42P01"} :
       StartApp(cfg, e1, e2)
  \/ \E resp \in Responses : MigrateStep(resp)
  \/ TimerFires
  \/ SignIn
  \/ SignOut
  \/ DropTables

SpecBoot == InitBoot /\ [][NextBoot]_vars

----------------------------------------------------------------------------
(* The application: the weight sliders of the admin page                   *)

\* Positions the user moves a slider to (the range inputs take 0..100).
SliderValues == {0, 50, 100}

SliderTotal(sl) ==
  sl["cost"] + sl["time"] + sl["risk"] + sl["priority"] + sl["reward"]

\* Variant of SaveGuard: the total is not looked at.
SaveGuardAny(total) == TRUE

\* Negation of the early return total !== 100
SaveGuard(total) == total = 100

\* The user moves the slider ws-k to v.
MoveSlider(k, v) ==
  /\ screen = "app"
  /\ CUR_PAGE = "admin"
  /\ sliders[k] # v
  /\ sliders' = [sliders EXCEPT ![k] = v]
  /\ UNCHANGED <<engineVars, storeVars, bootVars, globalVars, rows, title, wizStep,
                 btnDisabled, toasts, modal, submitVars>>

\* saveWeights: w[k] = v/100 for the five sliders, stored when they total 100
SaveWeights ==
  /\ screen = "app"
  /\ CUR_PAGE = "admin"
  /\ IF SaveGuard(SliderTotal(sliders))
     THEN /\ lsWeights' = <<[k \in DOMAIN sliders |-> Rat(sliders[k], 100)]>>
          /\ toasts' = "ok"
     ELSE /\ toasts' = "err"
          /\ UNCHANGED lsWeights
  /\ UNCHANGED <<engineVars, schema_done, CONFIG, tablesExist, session, db, bootVars,
                 globalVars, rows, title, wizStep, btnDisabled, sliders, modal,
                 submitVars>>

\* An administrator with nothing stored yet; the dashboard and the admin
\* page.
InitWeights ==
  /\ lsWeights = <<>>
  /\ SignedIn(0)
  /\ db = NoDecision
  /\ PROFILE = "balanced"

NextWeights ==
  \/ \E page \in {"dashboard", "admin"} : GotoPage(page)
  \/ \E k \in {"cost", "time", "risk", "priority", "reward"}, v \in SliderValues :
       MoveSlider(k, v)
  \/ SaveWeights

SpecWeights == InitWeights /\ [][NextWeights]_vars

Scored == "breakdown" \in DOMAIN result

----------------------------------------------------------------------------
(* Properties of scoreOptions                                              *)

Row(l) == CHOOSE o \in OptionPool : o.label = l

Breakdown == result.breakdown

\* The breakdown entry of the i-th input option.
EntryOf(i) ==
  Breakdown[CHOOSE k \in 1..Len(Breakdown) : Breakdown[k].option_id = options[i].id]

Attrs == {"cost", "time_required", "risk_level", "priority", "reward_potential"}

\* The attribute f of a is the attribute f of b (both unset counts as equal).
SameAttr(a, b, f) ==
  /\ (f \in DOMAIN a) = (f \in DOMAIN b)
  /\ f \in DOMAIN a => a[f] = b[f]

\* C1: the two-option example of the specification (best and worst
\* option, default weights, balanced personality) ranks option 1 first with
\* weighted_total 100.00, gives option 2 the total 0.00, confidence 99.0 and
\* risk level low.
C1_ExampleResult ==
  ( /\ Scored
    /\ options = WithIds(<<Row("best"), Row("worst")>>)
    /\ weights = DefaultWeights
    /\ personality = "balanced" )
  => /\ Breakdown[1].option_id = 1
     /\ Breakdown[1].weighted_total = 10000
     /\ Breakdown[2].weighted_total = 0
     /\ result.confidence = 990
     /\ result.riskLevel = "low"

\* Two options that differ in nothing but their costs, which are 100 (the
\* i-th) and 200 (the j-th).
CostPair(i, j) ==
  /\ Len(options) = 2
  /\ i # j
  /\ "cost" \in DOMAIN options[i] /\ options[i].cost = 100
  /\ "cost" \in DOMAIN options[j] /\ options[j].cost = 200
  /\ \A f \in Attrs \ {"cost"} : SameAttr(options[i], options[j], f)

\* C2 as stated: of two options identical but for the costs 100 and 200 the
\* cost-100 option has cost_score 100 and the cost-200 option cost_score 50.
C2_AsStated ==
  Scored =>
    \A i, j \in 1..Len(options) :
      CostPair(i, j) =>
        EntryOf(i).cost_score = 10000 /\ EntryOf(j).cost_score = 5000

\* C2 amended: of two options identical but for the costs 100 and 200
\* (maxCost = 200) the cost-100 option has cost_score 50 and the cost-200
\* option cost_score 0.
C2_CostScores ==
  Scored =>
    \A i, j \in 1..Len(options) :
      CostPair(i, j) =>
        EntryOf(i).cost_score = 5000 /\ EntryOf(j).cost_score = 0

C2_Witness ==
  /\ Scored
  /\ \E i, j \in 1..Len(options) : CostPair(i, j) /\ EntryOf(i).cost_score = 5000

\* C3: for n >= 2 options the breakdown holds every input option exactly
\* once, exactly one entry has rank 1, and the ranks are exactly 1..n.
C3_RanksArePermutation ==
  (Scored /\ Len(options) >= 2) =>
    LET n == Len(options) IN
    /\ Len(Breakdown) = n
    /\ \A i \in 1..n :
         Cardinality({k \in 1..n : Breakdown[k].option_id = options[i].id}) = 1
    /\ \A r \in 1..n : Cardinality({k \in 1..n : Breakdown[k].rank = r}) = 1
    /\ \A k \in 1..n : Breakdown[k].rank \in 1..n

C3_Witness ==
  /\ Scored
  /\ Len(options) >= 3
  /\ Breakdown[1].option_id # options[1].id
  /\ \E k \in 1..Len(Breakdown) - 1 :
       Breakdown[k].weighted_total = Breakdown[k + 1].weighted_total

\* The attributes that are set respect the data model.
InDataModel(o) ==
  /\ "cost" \in DOMAIN o => o.cost >= 0
  /\ "time_required" \in DOMAIN o => o.time_required >= 0
  /\ \A f \in {"risk_level", "priority", "reward_potential"} :
       f \in DOMAIN o => o[f] \in 0..100

NonNegative(ws) == \A k \in DOMAIN ws : ws[k][1] >= 0

ScoreFields ==
  {"cost_score", "time_score", "risk_score", "priority_score", "reward_score",
   "weighted_total"}

\* C4: with attributes inside the data model and non-negative user weights
\* of any scale, the five sub-scores and the weighted_total of every scored
\* option lie in [0,100].
C4_ScoresBounded ==
  ( /\ Scored
    /\ \A i \in 1..Len(options) : InDataModel(options[i])
    /\ NonNegative(weights) )
  => \A k \in 1..Len(Breakdown) : \A f \in ScoreFields : Breakdown[k][f] \in 0..10000

\* User weights that sum to more than 1, with totals at both ends of the range.
C4_Witness ==
  /\ Scored
  /\ Len(options) >= 2
  /\ NonNegative(weights)
  /\ "cost" \in DOMAIN weights /\ weights.cost[1] > weights.cost[2]
  /\ \E k \in 1..Len(Breakdown) : Breakdown[k].weighted_total = 10000
  /\ \E k \in 1..Len(Breakdown) : Breakdown[k].weighted_total = 0
  /\ \E k \in 1..Len(Breakdown) : Breakdown[k].weighted_total \in 1..9999

\* Gap between the totals of the rank-1 and the rank-2 entry (hundredths).
TopGap == Breakdown[1].weighted_total - Breakdown[2].weighted_total

GapSamples == {0, 1, 7, 50, 102, 103, 500, 1250, 2750, 5000, 7250, 9999, 10000}

\* C5: for n >= 2 the confidence lies in [50,99], is non-decreasing in the
\* gap between the rank-1 and rank-2 totals, is 50 at gap 0 and 99 at gap 100.
C5_ConfidenceRange ==
  (Scored /\ Len(options) >= 2) =>
    /\ result.confidence \in 500..990
    /\ TopGap = 0 => result.confidence = 500
    /\ TopGap = 10000 => result.confidence = 990
    /\ \A g \in GapSamples :
         /\ g <= TopGap => Confidence(g) <= result.confidence
         /\ g >= TopGap => Confidence(g) >= result.confidence

C5_Witness ==
  /\ Scored
  /\ Len(options) >= 2
  /\ TopGap = 10000
  /\ result.confidence = 990

\* C6: the breakdown is in descending order of weighted_total, and options
\* with equal weighted_total keep the order they have in the input list.
C6_SortedStable ==
  Scored =>
    \A i, j \in 1..Len(Breakdown) :
      i < j =>
        /\ Breakdown[i].weighted_total >= Breakdown[j].weighted_total
        /\ Breakdown[i].weighted_total = Breakdown[j].weighted_total
             => Breakdown[i].option_id < Breakdown[j].option_id

\* Two options that tie, behind a strictly better one that came last in the
\* input.
C6_Witness ==
  /\ Scored
  /\ Len(options) >= 3
  /\ Breakdown[1].option_id = options[3].id
  /\ Breakdown[1].weighted_total > Breakdown[2].weighted_total
  /\ Breakdown[2].weighted_total = Breakdown[3].weighted_total
  /\ Breakdown[2].option_id = options[1].id

AllIdentical ==
  \A i, j \in 1..Len(options) : \A f \in Attrs : SameAttr(options[i], options[j], f)

\* C7: if all options of a list (of at least two, the precondition of the
\* engine) have identical attributes, the confidence is 50 and rank i is the
\* i-th input option.
C7_IdenticalOptions ==
  (Scored /\ Len(options) >= 2 /\ AllIdentical) =>
    /\ result.confidence = 500
    /\ \A i \in 1..Len(options) : Breakdown[i].option_id = options[i].id

C7_Witness ==
  /\ Scored
  /\ Len(options) >= 2
  /\ AllIdentical
  /\ result.confidence = 500

\* C8: bestId is the id of the rank-1 entry and no option has a strictly
\* greater weighted_total than that option.
C8_BestIsTop ==
  Scored =>
    /\ \E k \in 1..Len(Breakdown) :
         /\ Breakdown[k].rank = 1
         /\ Breakdown[k].option_id = result.bestId
         /\ \A m \in 1..Len(Breakdown) :
              Breakdown[m].weighted_total <= Breakdown[k].weighted_total
    /\ Breakdown[1].option_id = result.bestId

C8_Witness ==
  /\ Scored
  /\ Len(options) >= 2
  /\ result.bestId = options[2].id
  /\ \A m \in 2..Len(Breakdown) :
       Breakdown[m].weighted_total < Breakdown[1].weighted_total

\* C9: an option with risk_level r in 0..10 has risk sub-score (10 - r) * 10;
\* risk_level 0 gives 100 and risk_level 10 gives 0.
C9_RiskScore ==
  Scored =>
    \A i \in 1..Len(options) :
      ("risk_level" \in DOMAIN options[i] /\ options[i].risk_level \in 0..100)
        => EntryOf(i).risk_score = (100 - options[i].risk_level) * 100

\* C10: an option with priority p in 0..10, p = 0 included, has priority
\* sub-score p * 10; only an option without a priority gets 50.
C10_PriorityScore ==
  Scored =>
    \A i \in 1..Len(options) :
      /\ ("priority" \in DOMAIN options[i] /\ options[i].priority \in 0..100)
           => EntryOf(i).priority_score = options[i].priority * 100
      /\ "priority" \notin DOMAIN options[i] => EntryOf(i).priority_score = 5000

\* o.cost||0 and o.time_required||0 of the i-th input option
CostOf(i) == OrElse(options[i], "cost", 0)

TimeOf(i) == OrElse(options[i], "time_required", 0)

LargestCost(i) == \A j \in 1..Len(options) : CostOf(j) <= CostOf(i)

LargestTime(i) == \A j \in 1..Len(options) : TimeOf(j) <= TimeOf(i)

\* C11 as stated: an option with cost 0 has cost_score 100 and the option
\* with the largest cost of the set has cost_score 0; the same for
\* time_required and time_score.
C11_AsStated ==
  Scored =>
    \A i \in 1..Len(options) :
      /\ CostOf(i) = 0 => EntryOf(i).cost_score = 10000
      /\ LargestCost(i) => EntryOf(i).cost_score = 0
      /\ TimeOf(i) = 0 => EntryOf(i).time_score = 10000
      /\ LargestTime(i) => EntryOf(i).time_score = 0

\* C11 amended: an option with cost 0 has cost_score 100, and the option with
\* the largest cost of the set has cost_score 0 when that cost is at least 1
\* (the floor of maxCost); the same for time_required and time_score.
C11_ExtremeScores ==
  Scored =>
    \A i \in 1..Len(options) :
      /\ CostOf(i) = 0 => EntryOf(i).cost_score = 10000
      /\ (LargestCost(i) /\ CostOf(i) >= 1) => EntryOf(i).cost_score = 0
      /\ TimeOf(i) = 0 => EntryOf(i).time_score = 10000
      /\ (LargestTime(i) /\ TimeOf(i) >= 1) => EntryOf(i).time_score = 0

\* A free option next to the most expensive and the slowest one, and a third
\* option in between.
C11_Witness ==
  /\ Scored
  /\ Len(options) >= 3
  /\ \E i, j, k \in 1..Len(options) :
       /\ CostOf(i) = 0 /\ TimeOf(i) = 0
       /\ LargestCost(j) /\ CostOf(j) >= 1 /\ EntryOf(j).cost_score = 0
       /\ LargestTime(j) /\ TimeOf(j) >= 1 /\ EntryOf(j).time_score = 0
       /\ EntryOf(k).cost_score \in 1..9999
       /\ EntryOf(k).time_score \in 1..9999

\* The input option that became the rank-1 entry.
TopOption == options[CHOOSE i \in 1..Len(options) : options[i].id = Breakdown[1].option_id]

\* C12: riskLevel is derived from the input risk_level r of the rank-1
\* option alone: low for r <= 2.5, medium for 2.5 < r <= 5, high for
\* 5 < r <= 7.5, critical for r > 7.5; it is always one of these four.
C12_RiskLevelOfWinner ==
  Scored =>
    /\ result.riskLevel \in {"low", "medium", "high", "critical"}
    /\ "risk_level" \in DOMAIN TopOption =>
         LET r == TopOption.risk_level IN
         /\ r <= 25 => result.riskLevel = "low"
         /\ (25 < r /\ r <= 50) => result.riskLevel = "medium"
         /\ (50 < r /\ r <= 75) => result.riskLevel = "high"
         /\ r > 75 => result.riskLevel = "critical"

Called == result # NoResult

\* C13: for n >= 2 an option that lacks attributes never makes the call
\* fail: a full result is returned, a missing risk_level, priority or
\* reward_potential is scored as 5 (sub-score 50) and a missing cost or
\* time_required as 0 (sub-score 100).
C13_MissingDefaulted ==
  (Called /\ Len(options) >= 2) =>
    /\ Scored
    /\ DOMAIN result = {"breakdown", "bestId", "confidence", "riskLevel"}
    /\ \A i \in 1..Len(options) :
         /\ "risk_level" \notin DOMAIN options[i] =>
              EntryOf(i).risk_score = 5000 /\ EntryOf(i).raw_risk = 50
         /\ "priority" \notin DOMAIN options[i] => EntryOf(i).priority_score = 5000
         /\ "reward_potential" \notin DOMAIN options[i] => EntryOf(i).reward_score = 5000
         /\ "cost" \notin DOMAIN options[i] => EntryOf(i).cost_score = 10000
         /\ "time_required" \notin DOMAIN options[i] => EntryOf(i).time_score = 10000

\* An option without attributes scored next to a complete one.
C13_Witness ==
  /\ Scored
  /\ Len(options) >= 2
  /\ \E i, j \in 1..Len(options) :
       /\ DOMAIN options[i] \cap Attrs = {}
       /\ Attrs \subseteq DOMAIN options[j]
       /\ EntryOf(i).reward_score = 5000
       /\ EntryOf(i).rank > EntryOf(j).rank

\* The weight vector w that the call scores with.
UsedWeights == BlendedWeights(weights, personality)

\* userWeights[k]*0.6 + personality[k]*0.4, a missing user key counting as 0
Mix(k) ==
  RatAdd(RatMul(IF k \in DOMAIN weights THEN weights[k] ELSE <<0, 1>>, <<3, 5>>),
         RatMul(<<PERSONALITY_MODS[personality][k], 100>>, <<2, 5>>))

\* C14: for non-negative user weights (missing keys counting as 0) and each
\* personality, the blended vector is proportional to
\* userWeights[k]*0.6 + personality[k]*0.4, has all five keys, none of them
\* negative, and sums to 1.
C14_BlendNormalized ==
  (Called /\ NonNegative(weights) /\ personality \in DOMAIN PERSONALITY_MODS) =>
    LET w == UsedWeights
        m == [k \in {"cost", "time", "risk", "priority", "reward"} |-> Mix(k)]
    IN  /\ DOMAIN w = {"cost", "time", "risk", "priority", "reward"}
        /\ \A k \in DOMAIN w : w[k][1] >= 0 /\ w[k][2] > 0
        /\ \A k, j \in DOMAIN w : RatMul(w[k], m[j]) = RatMul(w[j], m[k])
        /\ RatAdd(w["cost"],
             RatAdd(w["time"],
               RatAdd(w["risk"], RatAdd(w["priority"], w["reward"])))) = <<1, 1>>

\* A user vector with keys missing that does not sum to 1.
C14_Witness ==
  /\ Scored
  /\ Len(options) >= 2
  /\ personality = "conservative"
  /\ DOMAIN weights = {"risk", "reward"}
  /\ UsedWeights["cost"] = <<1, 16>>

\* C15: blending the balanced table, as user weights, with the balanced
\* personality yields the balanced table (0.25, 0.20, 0.25, 0.15, 0.15).
C15_BalancedFixedPoint ==
  (Called /\ weights = DefaultWeights /\ personality = "balanced") =>
    UsedWeights = [cost |-> <<1, 4>>, time |-> <<1, 5>>, risk |-> <<1, 4>>,
                   priority |-> <<3, 20>>, reward |-> <<3, 20>>]

C15_Witness ==
  /\ Scored
  /\ Len(options) >= 2
  /\ weights = DefaultWeights
  /\ personality = "balanced"
  /\ UsedWeights["priority"] = <<3, 20>>

ZeroWeights == \A k \in DOMAIN weights : weights[k][1] = 0

C17_RejectsShortLists ==
  (Called /\ Len(options) < 2) =>
    /\ ~Scored
    /\ result # TypeError

\* The blended weight vector sums to zero.
ZeroSum == WeightSum(Blend(weights, PersonalityMod(personality))) = <<0, 1>>

\* C18: when the blended weight vector sums to zero, scoreOptions rejects
\* with an error instead of dividing by the sum and returning scores.
C18_RejectsZeroSum ==
  (Called /\ Len(options) >= 2 /\ ZeroSum) =>
    /\ ~Scored
    /\ "error" \in DOMAIN result

UnroundedTotal(i) ==
  LET o == options[i]
  IN  Total(CostScore(o, MaxCost(options)), TimeScore(o, MaxTime(options)),
            RiskScore(o), PriorityScore(o), RewardScore(o), UsedWeights)

StrictlyGreater(a, b) == RatLeq(b, a) /\ a # b

\* C21: whenever the unrounded weighted total of option A is strictly greater
\* than that of option B, A receives a smaller rank number than B, whatever
\* the input order and the two-decimal rounding of weighted_total.
C21_RankByUnroundedTotal ==
  Scored =>
    \A i, j \in 1..Len(options) :
      StrictlyGreater(UnroundedTotal(i), UnroundedTotal(j)) =>
        EntryOf(i).rank < EntryOf(j).rank

----------------------------------------------------------------------------
(* Properties of the application                                           *)

\* C22: whatever sequence of addOptionRow, remove, wizNext and submitDecision
\* actions came before, the number of options submitDecision submits for
\* scoring is at least 2 and at most 10.
C22_TwoToTenOptions ==
  submitPc # "idle" => (Len(submitOpts) >= 2 /\ Len(submitOpts) <= 10)

\* C23: once the migration has completed in this browser, a later start of
\* the app at which the tables exist and checkTablesExist's select reports
\* them runs no entry of SCHEMA_STEPS and goes on to sign-in or the app.
C23_NoSqlAfterMigration ==
  (bootPc # "off" /\ CONFIG.valid /\ schemaDone = "true"
     /\ probe \in {"none", "PGRST116"}) =>
    /\ sqlRun = <<>>
    /\ screen \in {"auth", "app"}

\* A start after a completed migration where the select answers PGRST116.
C23_Witness ==
  /\ schemaDone = "true"
  /\ probe = "PGRST116"
  /\ bootPc = "idle"
  /\ screen = "auth"
  /\ sqlRun = <<>>

\* C24: once the schema exists in the database, a start of the app with
\* SUPABASE_SERVICE_KEY removed, with or without the schema_done flag,
\* reaches the sign-in or app screen and does not stop on the migration
\* error.
C24_ServiceKeyNotNeeded ==
  (bootPc = "idle" /\ CONFIG.valid /\ ~CONFIG.serviceKey /\ tablesExist) =>
    /\ screen \in {"auth", "app"}
    /\ ~migError

\* The run of the steps since the page loaded, F telling which answers to
\* a step count as the failure that stops the run.  The flag is set by this
\* run when initApp read it (the configuration being valid) as not set.
MigrationRun(F(_)) ==
  /\ \A i \in 1..Len(sqlRun) : sqlRun[i] = i
  /\ F(lastResp) =>
       /\ bootPc = "idle"
       /\ migError
       /\ screen = "migration"
       /\ schema_done # "true"
  /\ (CONFIG.valid /\ schema_done = "true" /\ schemaDone # "true") =>
       Len(sqlRun) = NSteps
  /\ (Len(sqlRun) > 0 /\ screen \in {"auth", "app"}) =>
       (Len(sqlRun) = NSteps /\ schema_done = "true")

\* A step failed with something other than an 'already exists' or
\* 'duplicate' error.
FailedOther(resp) == resp.kind \in {"http", "throw"} /\ ~resp.exists

\* C25 as stated: the steps run one at a time in list order; a step that
\* fails with anything other than an 'already exists'/'duplicate' error
\* stops the run with the error and retry button shown and the flag not
\* set; the flag is set and the app proceeds to sign-in only after every
\* step.
C25_AsStated == MigrationRun(FailedOther)

\* The same failure, an HTTP 409 answer excepted.
FailedFatally(resp) == FailedOther(resp) /\ resp.status # 409

\* C25, amended: as C25, the failures that stop the run being those other
\* than an 'already exists'/'duplicate' error and other than an HTTP 409
\* answer, which runSQL reports as skipped.
C25_MigrationRun == MigrationRun(FailedFatally)

\* The third step is answered by a 500 and the run has stopped there.
C25_Witness ==
  /\ lastResp.status = 500
  /\ sqlRun = <<1, 2, 3>>
  /\ migError
  /\ schema_done = "null"

\* C28: on every boot path that ends on the sign-in screen, a successful
\* sign-in sets USER and shows the app screen, and a sign-out clears USER,
\* PROFILE and DECISIONS and shows the sign-in screen.
C28_AuthEventsHandled ==
  [][/\ (screen = "auth" /\ ~session /\ session') =>
          (USER' = "user" /\ screen' = "app")
     /\ (screen = "app" /\ session /\ ~session') =>
          (USER' = "null" /\ PROFILE' = "null" /\ DECISIONS' = "empty"
             /\ screen' = "auth")]_vars

\* C26: with fewer than two labelled options the wizard does not reach the
\* review step and a click on Analyze inserts nothing and scores nothing;
\* with fewer than two stored options Decide For Me shows its error and
\* neither scores nor writes; so every call of scoreOptions the application
\* makes is given at least two options.
C26_AtLeastTwoOptionsScored ==
  [][/\ (result' # NoResult) => Len(options') >= 2
     /\ (wizStep' = 3 /\ wizStep # 3) => Len(collectOptions(rows)) >= 2
     /\ (CUR_PAGE = "new" /\ submitPc = "idle" /\ decidePc = "idle"
           /\ Len(collectOptions(rows)) < 2) =>
          (submitPc' = "idle" /\ db' = db /\ result' = NoResult)
     /\ (CUR_PAGE = "detail" /\ submitPc = "idle" /\ decidePc = "idle"
           /\ db.options < 2) =>
          /\ decidePc' = "idle" /\ db' = db /\ result' = NoResult
          /\ modal' # modal => modal' \notin {"loading", "result"}]_vars

\* Decide For Me has been refused on a decision with one stored option, and
\* a click on Analyze with one labelled option has been refused as well.
C26_Witness ==
  /\ modal = "error" /\ db.options = 1 /\ db.status = "pending"
  /\ CUR_PAGE = "new" /\ title /\ Len(collectOptions(rows)) = 1
  /\ toasts = "err" /\ submitPc = "idle" /\ wizStep = 2 /\ result = NoResult

\* A weight vector with the five keys, each value in [0,1], summing to 1.
UnitVector(w) ==
  /\ DOMAIN w = {"cost", "time", "risk", "priority", "reward"}
  /\ \A k \in DOMAIN w : RatLeq(<<0, 1>>, w[k]) /\ RatLeq(w[k], <<1, 1>>)
  /\ RatAdd(w["cost"],
       RatAdd(w["time"],
         RatAdd(w["risk"], RatAdd(w["priority"], w["reward"])))) = <<1, 1>>

\* C27: saveWeights stores a vector only when the five sliders total exactly
\* 100, and otherwise reports an error and leaves the stored weights as they
\* are; so loadWeights always returns a vector with the five keys, each value
\* in [0,1], summing to 1, the balanced table when nothing was stored.
C27_StoredWeightsSumToOne ==
  /\ [](UnitVector(loadWeights) /\ (lsWeights = <<>> => loadWeights = DefaultWeights))
  /\ [][/\ lsWeights' # lsWeights =>
             /\ SliderTotal(sliders) = 100
             /\ lsWeights' = <<[k \in DOMAIN sliders |-> Rat(sliders[k], 100)]>>
             /\ toasts' = "ok"
        /\ (toasts' = "err" /\ toasts # "err") =>
             (SliderTotal(sliders) # 100 /\ lsWeights' = lsWeights)]_vars

\* A vector other than the balanced table is stored, and a later save with
\* sliders that total 150 has been refused.
C27_Witness ==
  /\ lsWeights # <<>>
  /\ loadWeights["cost"] = <<1, 2>> /\ loadWeights["reward"] = <<1, 2>>
  /\ SliderTotal(sliders) = 150
  /\ toasts = "err"

\* C29: while the detail page is showing, goBack leads to another page:
\* PREV_PAGE is never 'detail' while CUR_PAGE is 'detail'.
C29_BackLeavesDetail == ~(CUR_PAGE = "detail" /\ PREV_PAGE = "detail")

\* C30: a decision has status 'analyzed' only when its options are stored
\* and scored and its results row is written, and the Analyze button is
\* enabled whenever submitDecision is not running.
C30_AnalyzedOnlyAfterWrites ==
  /\ db.status = "analyzed" =>
       (db.options >= 2 /\ db.scores = "written" /\ db.results = "written")
  /\ submitPc = "idle" => ~btnDisabled

====
